---- MODULE Spec2Model ----
(***************************************************************************)
(* Model of py3status_lights/lights.py: the click handler of the LED       *)
(* widget, its frame encoder, the UDP send and the persisted state.        *)
(*                                                                         *)
(* Python strings are sequences of one-character strings, so that string   *)
(* concatenation, rstrip and bytes.fromhex are computed character by       *)
(* character.  One call of a handler is one action; the calls the handler  *)
(* makes on its collaborators (socket, log, refresh, storage) are recorded *)
(* in order in `trace`.                                                    *)
(***************************************************************************)
EXTENDS Integers, Sequences, FiniteSets

VARIABLES
    mode,        \* configuration: placement mode
    proto,       \* configuration: protocol variant
    leds_total,  \* configuration: total number of LEDs
    colors,      \* configuration: palette
    started,     \* post_config_hook has run on this instance
    leds,        \* self.leds
    color,       \* self.color
    color_idx,   \* self.color_idx
    storage,     \* the host's key/value store (a function on the stored keys)
    event,       \* the input of the last handler call
    trace,       \* collaborator calls made by the last handler call, in order
    raised       \* exception that left the last handler call ("none" if none)

vars == <<mode, proto, leds_total, colors, started, leds, color, color_idx,
          storage, event, trace, raised>>

config == <<mode, proto, leds_total, colors>>

(***************************************************************************)
(* Bounds of the model.                                                    *)
(***************************************************************************)
MaxTotal == 1      \* a click is handled with leds_total in 0..MaxTotal
MaxFrameTotal == 7 \* the encoder is called with leds_total in 0..MaxFrameTotal
MaxLines == 2      \* the colour picker prints at most MaxLines lines
MaxLedsIn == 9     \* the encoder is called with leds in 0..MaxLedsIn

(***************************************************************************)
(* Strings.                                                                *)
(***************************************************************************)
NL == "\n"
HexDigits == {"0", "1", "2", "3", "4", "5", "6", "7", "8", "9",
              "a", "b", "c", "d", "e", "f", "A", "B", "C", "D", "E", "F"}
Whitespace == {" ", NL}

Black == <<"0", "0", "0", "0", "0", "0">>

\* self.py3.COLOR_GOOD: the host's default colour ("#00FF00" in py3status)
COLOR_GOOD == <<"#", "0", "0", "F", "F", "0", "0">>

DefaultColors == << <<"#", "6", "8", "D", "7", "4", "C">>,
                    <<"#", "E", "0", "5", "B", "2", "2">>,
                    <<"#", "C", "6", "0", "D", "1", "2">> >>

\* palettes the module is configured with: the default one and a one-colour
\* one written without the leading "#"
Palettes == { DefaultColors, << <<"6", "8", "D", "7", "4", "C">> >> }

Modes == {"default", "center", "distribute", "other"}
Protos == {"rgb", "drgb"}
Buttons == 1..6

\* lines the colour picker prints: a colour, an empty line, and a last line
\* that lacks its newline (readline returns one only at the end of the output)
InnerLines == { <<"F", "F", "0", "0", "0", "0", NL>> }
LastLines == { <<NL>>, <<"0", "0", "0", "0", "F", "F">> }

Streams == { s \in UNION { [1..k -> InnerLines \cup LastLines] : k \in 0..MaxLines } :
                \A i \in 1..Len(s) : IF i < Len(s) THEN s[i] \in InnerLines
                                                   ELSE s[i] \in LastLines }

\* colours the encoder is called with when it is checked on its own
FrameColors == { Black, <<"6", "8", "D", "7", "4", "C">>, <<"a", "b", "c", "d", "e", "f">> }

(***************************************************************************)
(* Python helpers.                                                         *)
(***************************************************************************)
\* int(a / b) for b > 0: the quotient truncated towards zero
PyInt(a, b) == IF a >= 0 THEN a \div b ELSE -((-a) \div b)

\* str.rstrip("\n"): every trailing newline is removed
RECURSIVE rstrip(_)
rstrip(s) ==
    IF s # <<>> /\ s[Len(s)] = NL THEN rstrip(SubSeq(s, 1, Len(s) - 1)) ELSE s

HexVal(c) ==
    CASE c = "0" -> 0 [] c = "1" -> 1 [] c = "2" -> 2 [] c = "3" -> 3
      [] c = "4" -> 4 [] c = "5" -> 5 [] c = "6" -> 6 [] c = "7" -> 7
      [] c = "8" -> 8 [] c = "9" -> 9
      [] c \in {"a", "A"} -> 10 [] c \in {"b", "B"} -> 11
      [] c \in {"c", "C"} -> 12 [] c \in {"d", "D"} -> 13
      [] c \in {"e", "E"} -> 14 [] c \in {"f", "F"} -> 15

\* bytes.fromhex(s) for a string s: whitespace between bytes is skipped, every
\* byte is two hex digits; anything else is a ValueError
RECURSIVE fromhex(_, _)
fromhex(s, i) ==
    IF i > Len(s) THEN [ok |-> TRUE, bytes |-> <<>>]
    ELSE IF s[i] \in Whitespace THEN fromhex(s, i + 1)
    ELSE IF i + 1 <= Len(s) /\ s[i] \in HexDigits /\ s[i + 1] \in HexDigits
         THEN LET rest == fromhex(s, i + 2)
              IN  [ok |-> rest.ok,
                   bytes |-> <<16 * HexVal(s[i]) + HexVal(s[i + 1])>> \o rest.bytes]
    ELSE [ok |-> FALSE, bytes |-> <<>>]

(***************************************************************************)
(* Trace entries.                                                          *)
(***************************************************************************)
Ev(name, arg) == [ev |-> name, arg |-> arg]
Only(name, t) == SelectSeq(t, LAMBDA e : e.ev = name)

(***************************************************************************)
(* The frame encoder.                                                      *)
(***************************************************************************)
_header(p) == IF p = "drgb" THEN <<"0", "2", "F", "F">> ELSE <<>>

\* "start" of _frame
start_wrong(m, l, total) == IF m = "center" THEN total - l ELSE 0
start(m, l, total) == IF m = "center" THEN PyInt(total - l, 2) ELSE 0

\* the "for n in range(leds_total)" loops of _frame, from index n on
RECURSIVE segment(_, _, _, _, _)
segment(n, total, s, l, c) ==
    IF n >= total THEN <<>>
    ELSE (IF n >= s /\ n < s + l THEN c ELSE Black) \o segment(n + 1, total, s, l, c)

RECURSIVE spread(_, _, _, _)
spread(n, total, m, c) ==
    IF n >= total THEN <<>>
    ELSE (IF n % m = 1 \/ m < 2 THEN c ELSE Black) \o spread(n + 1, total, m, c)

\* _frame(proto, leds, leds_total, color) with self.mode = m.  The result is a
\* string (none = FALSE), None (none = TRUE) or an exception (exc).
_frame(m, p, l, total, c) ==
    IF m \in {"center", "default"}
    THEN [exc |-> "none", none |-> FALSE,
          str |-> _header(p) \o segment(0, total, start(m, l, total), l, c)]
    ELSE IF m = "distribute"
    THEN IF l < 1
         THEN [exc |-> "none", none |-> TRUE, str |-> <<>>]
         ELSE LET d == PyInt(total, l)
              IN  IF d = 0 /\ total > 0
                  THEN \* n % m with m = 0 at n = 0
                       [exc |-> "ZeroDivisionError", none |-> FALSE, str |-> <<>>]
                  ELSE [exc |-> "none", none |-> FALSE,
                        str |-> _header(p) \o spread(0, total, d, c)]
    ELSE [exc |-> "none", none |-> FALSE, str |-> _header(p)]

(***************************************************************************)
(* The object and its methods.  A method is an operator from the object    *)
(* (a record of its fields) to the object after the call, the collaborator *)
(* calls it made and the exception it raised.                              *)
(***************************************************************************)
Self == [leds |-> leds, color |-> color, color_idx |-> color_idx]

\* _send_frame: net tells whether sock.sendto succeeds
_send_frame(self, net) ==
    LET msg == _frame(mode, proto, self.leds, leds_total, self.color)
    IN  IF msg.exc # "none"
        THEN [trace |-> <<>>, exc |-> msg.exc]
        ELSE IF msg.none
        THEN \* bytes.fromhex(None) is a TypeError, caught below
             [trace |-> <<Ev("log", <<"LOG_ERROR">>)>>, exc |-> "none"]
        ELSE LET b == fromhex(msg.str, 1)
             IN  [trace |-> <<Ev("frame", msg.str)>> \o
                            (IF b.ok /\ net
                             THEN <<Ev("sendto", b.bytes)>>
                             ELSE <<Ev("log", <<"LOG_ERROR">>)>>),
                  exc |-> "none"]

\* _store_state
_store_state(self) ==
    [k \in {"leds", "color", "color_idx"} |->
        CASE k = "leds" -> self.leds
          [] k = "color" -> self.color
          [] k = "color_idx" -> self.color_idx]

StoreTrace ==
    <<Ev("storage_set", <<"leds">>), Ev("storage_set", <<"color">>),
      Ev("storage_set", <<"color_idx">>)>>

\* the loop of button 2 over the lines of _run_color_picker, from line i on
RECURSIVE picker_loop(_, _, _, _)
picker_loop(self, lines, i, net) ==
    IF i > Len(lines) THEN [self |-> self, trace |-> <<>>, exc |-> "none"]
    ELSE LET s1 == [self EXCEPT !.color = rstrip(lines[i])]
             sf == _send_frame(s1, net)
         IN  IF sf.exc # "none"
             THEN [self |-> s1,
                   trace |-> <<Ev("log", <<"LOG_INFO">>)>> \o sf.trace,
                   exc |-> sf.exc]
             ELSE LET rest == picker_loop(s1, lines, i + 1, net)
                  IN  [self |-> rest.self,
                       trace |-> <<Ev("log", <<"LOG_INFO">>)>> \o sf.trace
                                 \o <<Ev("update", <<>>)>> \o rest.trace,
                       exc |-> rest.exc]

\* the branches of on_click, before _store_state
dispatch(self, button, lines, net) ==
    IF button = 1
    THEN LET i1 == self.color_idx + 1
             i2 == IF i1 > Len(colors) - 1 THEN 0 ELSE i1
             s1 == [self EXCEPT !.color_idx = i2, !.color = colors[i2 + 1]]
             sf == _send_frame(s1, net)
         IN  [self |-> s1, trace |-> sf.trace, exc |-> sf.exc]
    ELSE IF button = 2
    THEN picker_loop(self, lines, 1, net)
    ELSE IF button = 3
    THEN LET s1 == [self EXCEPT !.color = Black]
             sf == _send_frame(s1, net)
         IN  IF sf.exc # "none"
             THEN [self |-> s1, trace |-> sf.trace, exc |-> sf.exc]
             ELSE [self |-> [s1 EXCEPT !.color = COLOR_GOOD],
                   trace |-> sf.trace, exc |-> "none"]
    ELSE IF button = 4
    THEN IF self.leds < leds_total
         THEN LET s1 == [self EXCEPT !.leds = self.leds + 1]
                  sf == _send_frame(s1, net)
              IN  [self |-> s1, trace |-> sf.trace, exc |-> sf.exc]
         ELSE [self |-> self, trace |-> <<>>, exc |-> "none"]
    ELSE IF button = 5
    THEN IF self.leds > 0
         THEN LET s1 == [self EXCEPT !.leds = self.leds - 1]
                  sf == _send_frame(s1, net)
              IN  [self |-> s1, trace |-> sf.trace, exc |-> sf.exc]
         ELSE [self |-> self, trace |-> <<>>, exc |-> "none"]
    ELSE [self |-> self, trace |-> <<>>, exc |-> "none"]

(***************************************************************************)
(* Actions.                                                                *)
(***************************************************************************)
NoEvent == [name |-> "none", button |-> 0]

\* the host's storage at start-up: empty on the first run, or what an earlier
\* run persisted (here: after scrolling down from the initial 23 LEDs to 1)
StartStorage ==
    { << >>,
      [k \in {"leds", "color", "color_idx"} |->
          CASE k = "leds" -> 1 [] k = "color" -> COLOR_GOOD [] k = "color_idx" -> 0] }

Init ==
    /\ mode \in Modes
    /\ proto \in Protos
    /\ leds_total \in 0..MaxTotal
    /\ colors \in Palettes
    /\ started = FALSE
    /\ leds = 0
    /\ color = <<>>
    /\ color_idx = 0
    /\ storage \in StartStorage
    /\ event = NoEvent
    /\ trace = <<>>
    /\ raised = "none"

Has(k) == k \in DOMAIN storage

\* the number of LEDs set when storage holds none
InitialLeds == 23

\* post_config_hook on a fresh instance (start-up and every restart).  A
\* missing key reads as None; "not x" is true of None, 0 and "".
post_config_hook ==
    LET noleds == ~Has("leds") \/ storage["leds"] = 0
        noidx == ~Has("color_idx") \/ storage["color_idx"] = 0
        nocolor == ~Has("color") \/ storage["color"] = <<>>
    IN  /\ leds' = IF noleds THEN InitialLeds ELSE storage["leds"]
        /\ color_idx' = IF noidx THEN 0 ELSE storage["color_idx"]
        /\ color' = IF nocolor THEN COLOR_GOOD ELSE storage["color"]
        /\ started' = TRUE
        /\ event' = [NoEvent EXCEPT !.name = "post_config_hook"]
        \* _get_socket: sendto("".encode, ...) is a TypeError, logged
        /\ trace' = (IF noleds THEN <<Ev("log", <<"LOG_WARNING">>)>> ELSE <<>>)
                    \o <<Ev("log", <<"LOG_ERROR">>)>>
        /\ raised' = "none"
        /\ UNCHANGED <<config, storage>>

\* on_click.  The colour picker is taken to start (its process lifecycle is
\* the operating system's); its output is `lines`.  An exception leaves the
\* fields as they are when it is raised and skips _store_state.
\* sock.sendto succeeds or fails, as the network decides.
on_click(button, lines) ==
    /\ started
    /\ \E r \in {dispatch(Self, button, lines, net) : net \in BOOLEAN} :
           /\ leds' = r.self.leds
           /\ color' = r.self.color
           /\ color_idx' = r.self.color_idx
           /\ raised' = r.exc
           /\ IF r.exc = "none"
              THEN /\ storage' = _store_state(r.self)
                   /\ trace' = r.trace \o StoreTrace
              ELSE /\ storage' = storage
                   /\ trace' = r.trace
    /\ event' = [name |-> "on_click", button |-> button]
    /\ UNCHANGED <<config, started>>

Click ==
    \E button \in Buttons :
        IF button = 2
        THEN \E lines \in Streams : on_click(button, lines)
        ELSE on_click(button, <<>>)

Next == post_config_hook \/ Click

Spec == Init /\ [][Next]_vars

(***************************************************************************)
(* The encoder on its own: _send_frame is called on an instance whose      *)
(* fields and configuration are drawn from bounded sets.                   *)
(***************************************************************************)
FrameInit ==
    /\ mode \in Modes
    /\ proto \in Protos
    /\ leds_total \in 0..MaxFrameTotal
    /\ colors = DefaultColors
    /\ started = TRUE
    /\ leds \in 0..MaxLedsIn
    /\ color \in FrameColors
    /\ color_idx = 0
    /\ storage = << >>
    /\ event = NoEvent
    /\ trace = <<>>
    /\ raised = "none"

send_frame_call ==
    /\ event = NoEvent
    /\ \E net \in BOOLEAN :
         \E sf \in {_send_frame(Self, net)} :
            /\ trace' = sf.trace
            /\ raised' = sf.exc
    /\ event' = [NoEvent EXCEPT !.name = "_send_frame"]
    /\ UNCHANGED <<config, started, leds, color, color_idx, storage>>

FrameNext == send_frame_call

FrameSpec == FrameInit /\ [][FrameNext]_vars

(***************************************************************************)
(* Vocabulary of the claims.                                               *)
(***************************************************************************)
Frames(t) == Only("frame", t)
ErrorLogs(t) == SelectSeq(t, LAMBDA e : e.ev = "log" /\ e.arg = <<"LOG_ERROR">>)

\* the step is a call of on_click with this button
Clicked(b) == event'.name = "on_click" /\ event'.button = b

\* the three values are in storage, as _store_state writes them
Persisted(l, c, i) ==
    /\ DOMAIN storage = {"leds", "color", "color_idx"}
    /\ storage["leds"] = l
    /\ storage["color"] = c
    /\ storage["color_idx"] = i

\* block n of a frame: the six characters after the header and n blocks
Block(f, n) == SubSeq(f, Len(_header(proto)) + 6 * n + 1, Len(_header(proto)) + 6 * n + 6)

\* f is the header followed by leds_total blocks, block n being the colour
\* where lit[n] and 000000 elsewhere
FrameIs(f, lit) ==
    /\ Len(f) = Len(_header(proto)) + 6 * leds_total
    /\ SubSeq(f, 1, Len(_header(proto))) = (IF proto = "drgb" THEN <<"0", "2", "F", "F">> ELSE <<>>)
    /\ \A n \in 0..(leds_total - 1) : Block(f, n) = IF lit[n] THEN color ELSE Black

\* a line with its trailing newline removed
StripNewline(l) == IF l # <<>> /\ l[Len(l)] = NL THEN SubSeq(l, 1, Len(l) - 1) ELSE l

\* what C1 says of one step
C1_Step ==
    Clicked(1) =>
        /\ color_idx' = (color_idx + 1) % Len(colors)
        /\ color_idx' \in 0..(Len(colors) - 1)
        /\ color' = colors[color_idx' + 1]
        /\ Len(Frames(trace')) = 1

\* C1: a button-1 click sets colorIndex to (colorIndex+1) mod P and
\* currentColor to palette[new colorIndex], and emits exactly one frame;
\* colorIndex stays in 0..P-1.
C1_Button1Cycles == [][C1_Step]_vars

\* what C2 says of one step
C2_Step ==
    Clicked(3) =>
        /\ Len(Frames(trace')) <= 1
        /\ \A i \in 1..Len(Frames(trace')) :
              Frames(trace')[i].arg = _frame(mode, proto, leds, leds_total, Black).str
        /\ color' = COLOR_GOOD
        /\ "color" \in DOMAIN storage' /\ storage'["color"] = COLOR_GOOD
        /\ leds' = leds
        /\ color_idx' = color_idx

\* C2: on a button-3 click the frame that is sent is built with the all-zero
\* colour and the current ledsOn, no second frame is sent, and after the click
\* the in-memory and the persisted currentColor are the host's default colour;
\* ledsOn and colorIndex are unchanged.
C2_Button3Off == [][C2_Step]_vars

\* what C3 says of one step
C3_Step ==
    /\ Clicked(4) =>
         IF leds = leds_total
         THEN UNCHANGED <<leds, color, color_idx>> /\ Frames(trace') = <<>>
         ELSE /\ leds' = leds + 1
              /\ UNCHANGED <<color, color_idx>>
              /\ Frames(trace') =
                    <<Ev("frame", _frame(mode, proto, leds + 1, leds_total, color).str)>>
    /\ Clicked(5) =>
         IF leds = 0
         THEN UNCHANGED <<leds, color, color_idx>> /\ Frames(trace') = <<>>
         ELSE /\ leds' = leds - 1
              /\ UNCHANGED <<color, color_idx>>
              /\ Frames(trace') =
                    <<Ev("frame", _frame(mode, proto, leds - 1, leds_total, color).str)>>

\* C3: button 4 at ledsOn = totalLeds and button 5 at ledsOn = 0 change
\* nothing and send nothing; in every other case button 4 adds 1 to ledsOn and
\* button 5 subtracts 1, each emitting exactly one frame built from the new
\* ledsOn.
C3_Scroll == [][C3_Step]_vars

\* C4: from start-up on, through any clicks and restarts, ledsOn is within
\* 0..totalLeds.
C4_LedsInRange == started => leds \in 0..leds_total

\* what C5 says of one step
C5_Step ==
    event'.name = "post_config_hook" =>
        IF DOMAIN storage = {}
        THEN leds' = InitialLeds /\ color_idx' = 0 /\ color' = COLOR_GOOD
        ELSE leds' = storage["leds"] /\ color_idx' = storage["color_idx"]
             /\ color' = storage["color"]

\* C5: a restart restores the ledsOn, currentColor and colorIndex that the last
\* click persisted; the defaults are applied only when storage holds no values.
C5_Restore == [][C5_Step]_vars

\* C6: on_click never lets an exception out, and the state it leaves is the
\* state it persisted.
C6_NoException ==
    /\ raised = "none"
    /\ event.name = "on_click" => Persisted(leds, color, color_idx)

\* C7: in modes "default" and "center" the frame is the header followed by
\* totalLeds blocks, block n being the colour for start <= n < start + ledsOn
\* and 000000 elsewhere, with start = 0 in "default" and
\* floor((totalLeds - ledsOn) / 2) in "center"; for ledsOn <= totalLeds exactly
\* ledsOn blocks carry the colour.
C7_Segment ==
    (event.name = "_send_frame" /\ mode \in {"default", "center"}) =>
        LET s == IF mode = "center" THEN (leds_total - leds) \div 2 ELSE 0
            lit == [n \in 0..(leds_total - 1) |-> s <= n /\ n < s + leds]
        IN  /\ raised = "none"
            /\ Len(Frames(trace)) = 1
            /\ FrameIs(Frames(trace)[1].arg, lit)
            /\ (leds <= leds_total /\ color # Black) =>
                  Cardinality({n \in 0..(leds_total - 1) :
                                  Block(Frames(trace)[1].arg, n) = color}) = leds

\* the encoder ran in mode "center" with more LEDs asked for than there are,
\* by an odd number: floor and truncation give different starts
C7_Witness ==
    /\ event.name = "_send_frame"
    /\ mode = "center"
    /\ leds_total >= 1
    /\ leds > leds_total
    /\ (leds - leds_total) % 2 = 1
    /\ color # Black
    /\ Len(Frames(trace)) = 1

\* C8: in mode "distribute" with ledsOn >= 1 the frame is the header followed
\* by totalLeds blocks, block n being the colour where n mod m = 1 or m < 2,
\* with m = floor(totalLeds / ledsOn), and 000000 elsewhere.
C8_Distribute ==
    (event.name = "_send_frame" /\ mode = "distribute" /\ leds >= 1) =>
        LET m == leds_total \div leds
            lit == [n \in 0..(leds_total - 1) |-> m < 2 \/ n % m = 1]
        IN  /\ raised = "none"
            /\ Len(Frames(trace)) = 1
            /\ FrameIs(Frames(trace)[1].arg, lit)

\* what C9 says of one step
C9_Step ==
    (/\ event'.name = "on_click"
     /\ mode = "distribute"
     /\ leds' = 0
     /\ \/ event'.button \in {1, 3}
        \/ event'.button = 5 /\ leds = 1
        \/ event'.button = 2 /\ Only("update", trace') # <<>>)
    => /\ Only("sendto", trace') = <<>>
       /\ ErrorLogs(trace') = <<>>
       /\ raised' = "none"
       /\ Persisted(leds, color, color_idx)'

\* C9: in mode "distribute", a click that calls the encoder with ledsOn = 0
\* sends nothing, raises nothing and logs no error, and the state is persisted.
C9_NothingToSend == [][C9_Step]_vars

\* what C10 says of one step
C10_Step ==
    /\ \A lines \in Streams :
          on_click(2, lines) =>
            LET k == Len(lines)
                sent == SelectSeq(trace', LAMBDA e : e.ev \in {"frame", "update"})
            IN  /\ sent = [j \in 1..(2 * k) |->
                             IF j % 2 = 1
                             THEN Ev("frame", _frame(mode, proto, leds, leds_total,
                                                     StripNewline(lines[(j + 1) \div 2])).str)
                             ELSE Ev("update", <<>>)]
                /\ Only("storage_set", trace') = StoreTrace
                /\ SubSeq(trace', Len(trace') - 2, Len(trace')) = StoreTrace
                /\ color' = IF k = 0 THEN color ELSE StripNewline(lines[k])
                /\ Persisted(leds, color, color_idx)'
                /\ UNCHANGED <<leds, color_idx>>
    /\ \A b \in Buttons \ {2} : Clicked(b) => Len(Frames(trace')) <= 1

\* C10: a button-2 click on lines l1..lk emits, line by line, one frame built
\* from the stripped line and then one refresh; the state is persisted once,
\* after the last line, with currentColor the stripped lk; ledsOn and
\* colorIndex are unchanged.  Every other button emits at most one frame.
C10_Picker == [][C10_Step]_vars

====
